---- MODULE Spec2Model ----
(***************************************************************************)
(* Dynarmic::FP::FPToFixed (src/src/common/fp/op/FPToFixed.cpp): the       *)
(* conversion of an unpacked floating-point operand to a fixed-point       *)
(* integer of ibits bits with fbits fractional bits.                       *)
(*                                                                         *)
(* A u64 is modelled as the set of the positions of its 1 bits, a subset   *)
(* of 0..63, so that all 64 bits are kept and every operation wraps        *)
(* exactly as the unsigned 64-bit operation does.                          *)
(***************************************************************************)
EXTENDS Integers, FiniteSets, Sequences, TLC

VARIABLES ibits, fbits, unsigned_, rounding, op, pc, result, signals, path

vars == <<ibits, fbits, unsigned_, rounding, op, pc, result, signals, path>>

(***************************************************************************)
(* Bounds of the explored inputs.                                          *)
(***************************************************************************)
\* number of mantissa bits below the leading bit that vary
MantBits == 2
\* half-width of the windows of binades and of fbits that are explored
Margin == 1
\* ibits within SmallIBits of 0 and of the register width are explored
SmallIBits == 3
\* mantissa bits explored below the half bit at an overflow threshold
TailBits == 1

(***************************************************************************)
(* u64 and the bit utilities (common/bit_util.h, common/safe_ops.h).       *)
(***************************************************************************)
BitSize == 64

U64Bits == 0 .. (BitSize - 1)

MaxOf(S) == CHOOSE m \in S : \A x \in S : x <= m

\* Common::Ones<u64>(count), count <= 64
Ones(count) == 0 .. (count - 1)

\* Common::Bit<0>(value)
Bit0(value) == 0 \in value

\* Common::MostSignificantBit(value)
MostSignificantBit(value) == (BitSize - 1) \in value

\* Common::HighestSetBit(value): -1 for value 0
HighestSetBit(value) == IF value = {} THEN -1 ELSE MaxOf(value)

\* the lowest position that holds a 0 bit (BitSize when there is none)
LowestClear(value) ==
    CHOOSE z \in 0 .. BitSize :
        /\ (z < BitSize => z \notin value)
        /\ \A j \in 0 .. (z - 1) : j \in value

\* value + 1 on u64 (wraps to 0 from all ones)
Increment(value) ==
    LET z == LowestClear(value)
    IN  {i \in value : i > z} \cup ({z} \cap U64Bits)

\* Safe::Negate<u64>(value): ~value + 1
Negate(value) == Increment(U64Bits \ value)

\* Safe::ArithmeticShiftRight<u64>(value, shift_amount), shift_amount >= 0
ArithmeticShiftRight(value, shift_amount) ==
    IF shift_amount >= BitSize
    THEN IF MostSignificantBit(value) THEN U64Bits ELSE {}
    ELSE {i - shift_amount : i \in {j \in value : j >= shift_amount}}
            \cup (IF MostSignificantBit(value)
                  THEN (BitSize - shift_amount) .. (BitSize - 1)
                  ELSE {})

\* Safe::ArithmeticShiftLeft<u64>(value, shift_amount)
ArithmeticShiftLeft(value, shift_amount) ==
    IF shift_amount >= BitSize THEN {}
    ELSE IF shift_amount < 0 THEN ArithmeticShiftRight(value, -shift_amount)
    ELSE {i + shift_amount : i \in {j \in value : j + shift_amount < BitSize}}

(***************************************************************************)
(* ResidualError and ResidualErrorOnRightShift (common/fp/mantissa_util.h) *)
(***************************************************************************)
Zero == 0
LessThanHalf == 1
Half == 2
GreaterThanHalf == 3

ResidualErrorOnRightShift(mantissa, shift_amount) ==
    IF shift_amount <= 0 \/ mantissa = {} THEN Zero
    ELSE IF shift_amount > BitSize
    THEN IF MostSignificantBit(mantissa) THEN GreaterThanHalf ELSE LessThanHalf
    ELSE LET half_bit_position == shift_amount - 1
             error == mantissa \cap Ones(shift_amount)
         IN  IF error = {} THEN Zero
             ELSE IF half_bit_position \notin error THEN LessThanHalf
             ELSE IF error = {half_bit_position} THEN Half
             ELSE GreaterThanHalf

(***************************************************************************)
(* Unpacked operands (common/fp/unpacked.h).                               *)
(***************************************************************************)
normalized_point_position == 62

\* exponent FPUnpack gives an infinity
InfinityExponent == 1000000

RoundingModes == {"ToNearest_TieEven", "TowardsPlusInfinity", "TowardsMinusInfinity",
                  "TowardsZero", "ToNearest_TieAwayFromZero", "ToOdd"}

\* explicit fraction bits of the widest format (double precision)
FractionBits == 52

\* the mantissa bits at the distances D below the leading bit
BitsBelowLead(D) == {normalized_point_position - d : d \in D}

\* distances, for a width, of the bits that land around the binary point when
\* the value is just at an overflow threshold
Window(i) == {d \in (i - 2) .. (i + TailBits) : 1 <= d /\ d <= FractionBits}

\* distances of the bits between the leading bit and that window
Fill(i) == {d \in 1 .. (i - 3) : d <= FractionBits}

\* normalized mantissas: the leading 1 at normalized_point_position, then
\* either any MantBits bits, or any bits in the window with all or none before
Mantissas(i) ==
    {{normalized_point_position} \cup BitsBelowLead(D) : D \in SUBSET (1 .. MantBits)}
    \cup {{normalized_point_position} \cup BitsBelowLead(F) \cup BitsBelowLead(T) :
            F \in {{}, Fill(i)}, T \in SUBSET Window(i)}

Unpacked(type, sign, mantissa, exponent) ==
    [type |-> type, sign |-> sign, mantissa |-> mantissa, exponent |-> exponent]

\* the binades b of the scaled value, 2^b <= |op| * 2^fbits < 2^(b+1), explored
\* for a width: around 1, around the overflow thresholds, and where the left
\* shift reaches the register width
Binades(i) ==
    ((0 - 2 - Margin) .. (1 + Margin))
        \cup ((i - 1 - Margin) .. (i + Margin))
        \cup ((normalized_point_position + BitSize - 1 - Margin)
                .. (normalized_point_position + BitSize - 1 + Margin))

\* what FPUnpack can return
Operands(i, f) ==
    {Unpacked("Nonzero", s, m, b - f) :
        s \in BOOLEAN, m \in Mantissas(i), b \in Binades(i)}
    \cup {Unpacked(t, s, {}, 0) : t \in {"Zero", "QNaN", "SNaN"}, s \in BOOLEAN}
    \cup {Unpacked("Infinity", s, {normalized_point_position}, InfinityExponent) :
            s \in BOOLEAN}

IBitsSet ==
    {i \in 0 .. (BitSize + 1) :
        i <= SmallIBits \/ i >= BitSize - SmallIBits \/ i \in {8, 16, 32}}

FBitsSet(i) == {0, i \div 2, i, i + 1}

\* 1 << n on u64 for a shift count outside 0..63 is undefined: the count is
\* taken modulo the width, or the bit is shifted out
UndefinedShiftOutcomes == {{BitSize - 1}, {}}

(***************************************************************************)
(* FPToFixed                                                               *)
(***************************************************************************)
\* the three ASSERTs
PreconditionsHold_NoFbitsCheck(i, f, r) ==
    /\ r # "ToOdd"
    /\ i <= 64

PreconditionsHold(i, f, r) ==
    /\ r # "ToOdd"
    /\ i <= 64
    /\ f <= i

IsNaN_SignallingOnly(type) == type = "SNaN"

IsNaN(type) == type = "SNaN" \/ type = "QNaN"

NegativeToUnsigned_Inverted(sign, u) == sign /\ ~u

NegativeToUnsigned(sign, u) == sign /\ u

ScaledExponent(value_exponent, f) ==
    value_exponent + f - normalized_point_position

SignedMantissa(sign, mantissa) == IF sign THEN Negate(mantissa) ELSE mantissa

\* TowardsZero never adjusts the floor of a negative value
RoundUp_ZeroNeverUp(r, error, int_result) ==
    CASE r = "ToNearest_TieEven" ->
            error > Half \/ (error = Half /\ Bit0(int_result))
      [] r = "TowardsPlusInfinity" -> error # Zero
      [] r = "TowardsMinusInfinity" -> FALSE
      [] r = "TowardsZero" -> FALSE
      [] r = "ToNearest_TieAwayFromZero" ->
            error > Half \/ (error = Half /\ ~MostSignificantBit(int_result))

\* TowardsPlusInfinity rounds up without looking at the residual
RoundUp_CeilingAlways(r, error, int_result) ==
    CASE r = "ToNearest_TieEven" ->
            error > Half \/ (error = Half /\ Bit0(int_result))
      [] r = "TowardsPlusInfinity" -> TRUE
      [] r = "TowardsMinusInfinity" -> FALSE
      [] r = "TowardsZero" -> error # Zero /\ MostSignificantBit(int_result)
      [] r = "ToNearest_TieAwayFromZero" ->
            error > Half \/ (error = Half /\ ~MostSignificantBit(int_result))

\* ToNearest_TieEven rounds every tie up
RoundUp_TiesUp(r, error, int_result) ==
    CASE r = "ToNearest_TieEven" -> error >= Half
      [] r = "TowardsPlusInfinity" -> error # Zero
      [] r = "TowardsMinusInfinity" -> FALSE
      [] r = "TowardsZero" -> error # Zero /\ MostSignificantBit(int_result)
      [] r = "ToNearest_TieAwayFromZero" ->
            error > Half \/ (error = Half /\ ~MostSignificantBit(int_result))

RoundUp(r, error, int_result) ==
    CASE r = "ToNearest_TieEven" ->
            error > Half \/ (error = Half /\ Bit0(int_result))
      [] r = "TowardsPlusInfinity" -> error # Zero
      [] r = "TowardsMinusInfinity" -> FALSE
      [] r = "TowardsZero" -> error # Zero /\ MostSignificantBit(int_result)
      [] r = "ToNearest_TieAwayFromZero" ->
            error > Half \/ (error = Half /\ ~MostSignificantBit(int_result))

MinExponentForOverflow(i, mantissa, round_up, u) ==
    i - HighestSetBit(IF round_up THEN Increment(mantissa) ELSE mantissa)
      - (IF u THEN 0 ELSE 1)

\* ibits - (unsigned_ ? 0 : 1) as size_t: at ibits = 0 it wraps to 2^64 - 1,
\* written -1 here; it is only compared with the width
SaturationWidth(i, u) == i - (IF u THEN 0 ELSE 1)

\* static_cast<u64>(1) << (ibits - 1)
SignBit(i, ub) == IF i - 1 \in U64Bits THEN {i - 1} ELSE ub

NegativeBoundary_ValueOnly(exponent, min_exponent_for_overflow, int_result, min_value) ==
    int_result = min_value

NegativeBoundary(exponent, min_exponent_for_overflow, int_result, min_value) ==
    exponent = min_exponent_for_overflow /\ int_result = min_value

SignalsInexact_Always(error) == TRUE

SignalsInexact(error) == error # Zero

ResultMask_FullWidth(i) == Ones(BitSize)

ResultMask(i) == Ones(i)

Returned(value, sigs, where) ==
    [pc |-> "returned", result |-> value, signals |-> sigs, path |-> where]

Fatal(sigs, where) ==
    [pc |-> "fatal", result |-> {}, signals |-> sigs, path |-> where]

FPToFixed(i, operand, f, u, r, ub) ==
    IF ~PreconditionsHold(i, f, r) THEN Fatal(<<>>, "assert")
    ELSE
    LET sign == operand.sign
        mantissa == operand.mantissa
        nan == IF IsNaN(operand.type) THEN <<"InvalidOp">> ELSE <<>>
    IN
    IF mantissa = {} THEN Returned({}, nan, "zero")
    ELSE IF NegativeToUnsigned(sign, u)
    THEN Returned({}, Append(nan, "InvalidOp"), "negative_unsigned")
    ELSE
    LET exponent == ScaledExponent(operand.exponent, f)
        signed == SignedMantissa(sign, mantissa)
        error == ResidualErrorOnRightShift(signed, -exponent)
        shifted == ArithmeticShiftLeft(signed, exponent)
        round_up == RoundUp(r, error, shifted)
        int_result == IF round_up THEN Increment(shifted) ELSE shifted
        min_exponent_for_overflow == MinExponentForOverflow(i, mantissa, round_up, u)
        overflow == exponent >= min_exponent_for_overflow
        min_value == Negate(SignBit(i, ub))
    IN
    IF overflow /\ (u \/ ~sign)
    THEN IF SaturationWidth(i, u) \in 0 .. BitSize
         THEN Returned(Ones(SaturationWidth(i, u)), Append(nan, "InvalidOp"),
                       "positive_overflow")
         ELSE Fatal(Append(nan, "InvalidOp"), "ones")
    ELSE IF overflow
            /\ ~NegativeBoundary(exponent, min_exponent_for_overflow, int_result, min_value)
    THEN Returned(SignBit(i, ub), Append(nan, "InvalidOp"), "negative_overflow")
    ELSE Returned(int_result \cap ResultMask(i),
                  IF SignalsInexact(error) THEN Append(nan, "Inexact") ELSE nan,
                  "masked")

(***************************************************************************)
(* The state machine: one call of FPToFixed on each explored input.        *)
(***************************************************************************)
Init ==
    /\ ibits \in IBitsSet
    /\ fbits \in FBitsSet(ibits)
    /\ unsigned_ \in BOOLEAN
    /\ rounding \in RoundingModes
    /\ op \in Operands(ibits, fbits)
    /\ pc = "call"
    /\ result = {}
    /\ signals = <<>>
    /\ path = "none"

Call ==
    /\ pc = "call"
    /\ \E ub \in UndefinedShiftOutcomes :
        LET out == FPToFixed(ibits, op, fbits, unsigned_, rounding, ub)
        IN  /\ pc' = out.pc
            /\ result' = out.result
            /\ signals' = out.signals
            /\ path' = out.path
    /\ UNCHANGED <<ibits, fbits, unsigned_, rounding, op>>

Next == Call

Spec == Init /\ [][Next]_vars

(***************************************************************************)
(* The mathematical conversion the results are compared with: the scaled   *)
(* value |op| * 2^fbits as an unbounded set of bit positions (negative     *)
(* positions are the fraction), rounded in sign-magnitude form.            *)
(***************************************************************************)
Signalled(e) == \E k \in 1 .. Len(signals) : signals[k] = e

\* the request is one the function is specified for
ValidRequest ==
    /\ ibits \in 1 .. BitSize
    /\ fbits \in 0 .. ibits
    /\ rounding # "ToOdd"

ScaledPositions ==
    {j + op.exponent + fbits - normalized_point_position : j \in op.mantissa}

RealInt == {p \in ScaledPositions : p >= 0}

RealFrac == {p \in ScaledPositions : p < 0}

FracIsZero == RealFrac = {}
FracIsHalf == RealFrac = {0 - 1}
FracAboveHalf == (0 - 1) \in RealFrac /\ RealFrac # {0 - 1}

\* magnitude + 1 on an unbounded magnitude
MagnitudeSucc(M) ==
    LET z == CHOOSE c \in 0 .. Cardinality(M) :
                 c \notin M /\ \A j \in 0 .. (c - 1) : j \in M
    IN  {p \in M : p > z} \cup {z}

\* whether rounding in mode r moves the magnitude away from zero
MagnitudeUp(r) ==
    CASE r = "ToNearest_TieEven" -> FracAboveHalf \/ (FracIsHalf /\ 0 \in RealInt)
      [] r = "TowardsPlusInfinity" -> ~FracIsZero /\ ~op.sign
      [] r = "TowardsMinusInfinity" -> ~FracIsZero /\ op.sign
      [] r = "TowardsZero" -> FALSE
      [] r = "ToNearest_TieAwayFromZero" -> FracAboveHalf \/ FracIsHalf
      [] OTHER -> FALSE

\* magnitude of the scaled value rounded to an integer in the requested mode
RoundedMagnitude == IF MagnitudeUp(rounding) THEN MagnitudeSucc(RealInt) ELSE RealInt

\* rounded value <= 2^ibits - 1 (unsigned), <= 2^(ibits-1) - 1 (signed)
FitsPositive ==
    \A p \in RoundedMagnitude : p < ibits - (IF unsigned_ THEN 0 ELSE 1)

\* -(rounded magnitude) = -2^(ibits-1)
AtSignedMinimum == RoundedMagnitude = {ibits - 1}

\* -(rounded magnitude) >= -2^(ibits-1)
FitsNegative == AtSignedMinimum \/ \A p \in RoundedMagnitude : p < ibits - 1

RoundedInRange == IF op.sign THEN FitsNegative ELSE FitsPositive

\* two's complement of -M in the low ibits bits: the bits up to the lowest 1
\* are kept, those above are inverted
TwosComplement(M) ==
    IF M = {} THEN {}
    ELSE LET l == CHOOSE c \in M : \A x \in M : c <= x
         IN  {l} \cup {p \in (l + 1) .. (ibits - 1) : p \notin M}

ExpectedPattern ==
    IF op.sign THEN TwosComplement(RoundedMagnitude) ELSE RoundedMagnitude

Converted ==
    /\ pc # "call"
    /\ ValidRequest
    /\ op.mantissa # {}

\* the residual FPToFixed computes for the operand of the state
CodeResidual ==
    ResidualErrorOnRightShift(SignedMantissa(op.sign, op.mantissa),
                              0 - ScaledExponent(op.exponent, fbits))

\* the candidate FPToFixed has after the shift, before rounding
CodeShifted ==
    ArithmeticShiftLeft(SignedMantissa(op.sign, op.mantissa),
                        ScaledExponent(op.exponent, fbits))

SupportedModes == RoundingModes \ {"ToOdd"}

OnlyInvalidOp == \A k \in 1 .. Len(signals) : signals[k] = "InvalidOp"

(***************************************************************************)
(* Claims                                                                  *)
(***************************************************************************)

\* C1: a non-negative operand whose scaled value, rounded in the requested
\* mode, exceeds the largest target value makes FPToFixed signal InvalidOp and
\* return that largest value, Ones(ibits) or Ones(ibits - 1), also when only
\* the round-up increment takes it past the maximum.
C1_PositiveOverflowSaturates ==
    (Converted /\ ~op.sign /\ ~FitsPositive)
        => /\ pc = "returned"
           /\ result = Ones(ibits - (IF unsigned_ THEN 0 ELSE 1))
           /\ Signalled("InvalidOp")

\* C2: when the scaled value rounded in the requested mode lies in the target
\* range (negative operands into an unsigned target aside), FPToFixed returns
\* exactly that integer as a two's complement pattern in the low ibits bits
\* and does not signal InvalidOp.
C2_InRangeExact ==
    (Converted /\ ~(op.sign /\ unsigned_) /\ RoundedInRange)
        => /\ pc = "returned"
           /\ result = ExpectedPattern
           /\ ~Signalled("InvalidOp")

C2_Witness ==
    /\ Converted /\ RoundedInRange
    /\ op.sign /\ ~unsigned_
    /\ ibits = 32
    /\ MagnitudeUp(rounding)
    /\ Cardinality(RoundedMagnitude) > 1
    /\ pc = "returned" /\ result = ExpectedPattern

\* C3: for a negative operand and a signed target, a rounded value of exactly
\* -2^(ibits-1) is returned as 1 << (ibits-1) without InvalidOp, with Inexact
\* iff bits were discarded; a rounded value below -2^(ibits-1) signals
\* InvalidOp, no Inexact, and returns 1 << (ibits-1).
C3_NegativeBoundary ==
    (Converted /\ op.sign /\ ~unsigned_)
        => /\ AtSignedMinimum
                => /\ pc = "returned"
                   /\ result = {ibits - 1}
                   /\ ~Signalled("InvalidOp")
                   /\ Signalled("Inexact") <=> ~FracIsZero
           /\ ~FitsNegative
                => /\ pc = "returned"
                   /\ result = {ibits - 1}
                   /\ Signalled("InvalidOp")
                   /\ ~Signalled("Inexact")

\* the magnitude is above 2^(ibits-1) and rounds to it
C3_Witness ==
    /\ Converted /\ op.sign /\ ~unsigned_
    /\ ibits = 32
    /\ AtSignedMinimum /\ RealInt = {ibits - 1} /\ ~FracIsZero
    /\ path = "masked" /\ result = {ibits - 1}

\* C4: a negative operand with non-zero mantissa into an unsigned target
\* returns 0 and signals InvalidOp and nothing else, whatever the mode, the
\* widths and the exponent.
C4_NegativeToUnsigned ==
    (Converted /\ op.sign /\ unsigned_)
        => /\ pc = "returned"
           /\ result = {}
           /\ Signalled("InvalidOp")
           /\ OnlyInvalidOp

\* a negative operand so small that it would round to 0
C4_Witness ==
    /\ Converted /\ op.sign /\ unsigned_
    /\ RoundedMagnitude = {} /\ ~FracIsZero
    /\ path = "negative_unsigned" /\ signals = <<"InvalidOp">>

\* C5: every value returned for a valid request has all bits at positions
\* >= ibits equal to zero.
C5_HighBitsClear ==
    (pc = "returned" /\ ValidRequest) => \A p \in result : p < ibits

\* a negative result, whose sign extension the mask removes
C5_Witness ==
    /\ pc = "returned" /\ ValidRequest
    /\ path = "masked" /\ op.sign /\ ibits = 16
    /\ result # {} /\ MostSignificantBit(CodeShifted)

\* C6: when the residual of shifting the signed mantissa by the scaled
\* exponent is Zero, no Inexact is signalled and the returned pattern and the
\* signalled exceptions are the same under all five supported rounding modes.
C6_ExactIsModeIndependent ==
    (pc # "call" /\ ValidRequest /\ CodeResidual = Zero)
        => /\ ~Signalled("Inexact")
           /\ \A r \in SupportedModes : \A ub \in UndefinedShiftOutcomes :
                LET other == FPToFixed(ibits, op, fbits, unsigned_, r, ub)
                IN  /\ other.pc = pc
                    /\ other.result = result
                    /\ other.signals = signals

\* bits are shifted out and all of them are zero
C6_Witness ==
    /\ Converted /\ CodeResidual = Zero
    /\ ScaledExponent(op.exponent, fbits) < 0
    /\ path = "masked" /\ result # {} /\ signals = <<>>

\* C7: for an operand whose residual is Half and whose rounded value is in
\* range, ToNearest_TieEven increments the candidate iff its lowest bit is 1,
\* so the result is even; ToNearest_TieAwayFromZero increments iff its sign
\* bit is 0, so the result is the neighbour of larger magnitude; Inexact is
\* signalled in both.
C7_TieResolution ==
    (Converted /\ ~(op.sign /\ unsigned_) /\ RoundedInRange /\ CodeResidual = Half)
        => /\ rounding = "ToNearest_TieEven"
                => /\ pc = "returned"
                   /\ result = (IF Bit0(CodeShifted) THEN Increment(CodeShifted)
                                ELSE CodeShifted) \cap Ones(ibits)
                   /\ 0 \notin result
                   /\ Signalled("Inexact")
           /\ rounding = "ToNearest_TieAwayFromZero"
                => /\ pc = "returned"
                   /\ result = (IF ~MostSignificantBit(CodeShifted)
                                THEN Increment(CodeShifted)
                                ELSE CodeShifted) \cap Ones(ibits)
                   /\ result = (IF op.sign THEN TwosComplement(MagnitudeSucc(RealInt))
                                ELSE MagnitudeSucc(RealInt))
                   /\ Signalled("Inexact")

\* a negative tie whose floor is odd: the candidate is incremented to the even
\* neighbour
C7_Witness ==
    /\ Converted /\ op.sign /\ ~unsigned_ /\ RoundedInRange
    /\ CodeResidual = Half /\ rounding = "ToNearest_TieEven"
    /\ Bit0(CodeShifted) /\ RealInt # {}
    /\ pc = "returned" /\ Signalled("Inexact")

\* C8: an operand whose unpacked mantissa is 0 returns 0 and never signals
\* Inexact; InvalidOp is signalled exactly for SNaN and QNaN; an exact zero of
\* either sign signals nothing, also with sign set and unsigned_ true.
C8_ZeroMantissa ==
    (pc # "call" /\ ValidRequest /\ op.mantissa = {})
        => /\ pc = "returned"
           /\ result = {}
           /\ ~Signalled("Inexact")
           /\ Signalled("InvalidOp") <=> op.type \in {"SNaN", "QNaN"}
           /\ op.type = "Zero" => signals = <<>>

\* a negative zero into an unsigned target
C8_Witness ==
    /\ pc = "returned" /\ ValidRequest
    /\ op.type = "Zero" /\ op.sign /\ unsigned_
    /\ path = "zero" /\ signals = <<>>

\* C9 as stated: a call whose rounding mode is ToOdd, or whose ibits is outside
\* 1..64, or whose fbits exceeds ibits, ends in the fatal-error state for
\* every operand: it returns no pattern and signals nothing.
C9_InvalidRequestsFatal ==
    (pc # "call" /\ (rounding = "ToOdd" \/ ibits \notin 1 .. 64 \/ fbits > ibits))
        => /\ pc = "fatal"
           /\ signals = <<>>

\* C9 as amended: a call whose rounding mode is ToOdd, or whose ibits is above
\* 64, or whose fbits exceeds ibits, ends in the fatal-error state at the
\* entry assertions for every operand: it returns no pattern and signals
\* nothing.
C9_AssertedRequestsFatal ==
    (pc # "call" /\ (rounding = "ToOdd" \/ ibits > 64 \/ fbits > ibits))
        => /\ pc = "fatal"
           /\ path = "assert"
           /\ result = {}
           /\ signals = <<>>

\* only the fbits assertion fails, on an operand that would otherwise convert
C9_Witness ==
    /\ pc = "fatal" /\ path = "assert"
    /\ rounding # "ToOdd" /\ ibits \in 1 .. 64 /\ fbits > ibits
    /\ op.type = "Nonzero" /\ signals = <<>>

\* C10: NaN operands carrying mantissa 0, one call signals at most once, never
\* both InvalidOp and Inexact, and Inexact exactly when it returns through the
\* final masked return with a non-Zero residual.
C10_SignalsAtMostOnce ==
    (pc # "call" /\ (op.type \in {"SNaN", "QNaN"} => op.mantissa = {}))
        => /\ Len(signals) <= 1
           /\ ~(Signalled("InvalidOp") /\ Signalled("Inexact"))
           /\ Signalled("Inexact") <=> (path = "masked" /\ CodeResidual # Zero)

\* a NaN: the one signal is the InvalidOp of the NaN check
C10_Witness ==
    /\ pc = "returned" /\ op.type = "QNaN" /\ op.mantissa = {}
    /\ path = "zero" /\ signals = <<"InvalidOp">>

====
